---- MODULE Spec2Model ----
(***************************************************************************)
(* Model of the stock-price ingestion batch of koshimaru-ryoma/            *)
(* stock--analysis: the gap calculation of StockPriceService, the          *)
(* conflict-safe bulk insert of StockPrice1mRepository and the store       *)
(* (PostgreSQL table stock_prices_1m) they act on.                         *)
(*                                                                         *)
(* Time.  An instant is an integer tick in the Asia/Tokyo calendar; a      *)
(* calendar day holds TicksPerDay ticks.  The first tick of a day is       *)
(* datetime.min.time() and the last tick is datetime.max.time(), the last  *)
(* instant a datetime of that day can hold.  The store's session runs in    *)
(* Asia/Tokyo (database.py, server_settings), so its date() of an instant   *)
(* is the Tokyo date; the driver (asyncpg) hands every timestamptz value    *)
(* back as a UTC datetime, so datetime.date() of a value read from the      *)
(* store is the UTC date of the instant.                                    *)
(***************************************************************************)
EXTENDS Integers, Sequences, FiniteSets, TLC

\* ------------------------------------------------------------------ bounds
\* Calendar days of the model are 0..MaxDay.
MaxDay == 2
\* Ticks of one calendar day (one tick per bar of the 1-minute series).
TicksPerDay == 1440
\* The tick inside a day used as a window bound that is neither the first
\* nor the last instant of the day.
MidTick == 100

\* --------------------------------------------------------------- constants
\* service.py: MIN_RECORDS_PER_DAY = 200
MIN_RECORDS_PER_DAY == 200
\* stock_price_1m.py: open is Decimal(max_digits=10, decimal_places=2); a
\* value of 10^8 or more overflows numeric(10,2).  Prices are whole units.
NumericLimit == 100000000

\* Longest record list the driver of SpecStore hands to bulk_insert.
MaxRecords == 2
\* Bars per calendar day the data provider holds for an instrument.
BarsPerDay == 2
\* Largest max_retries a YFinanceFetcher is built with.
MaxRetries == 3

Days == 0..MaxDay
\* Two prices numeric(10,2) holds.
GoodPrice == 4500
AltPrice == 4510
\* service.py: JST = ZoneInfo("Asia/Tokyo"), nine hours ahead of UTC, in ticks.
UtcOffset == 540
\* yfinance_fetcher.py: retry_delay: int = 5 (seconds)
RetryDelay == 5
\* The sessions: one per batch run (fetch_stock_prices opens one AsyncSession).
Runs == {"r1", "r2"}

\* ------------------------------------------------------------------- state
VARIABLES
  store,            \* committed rows of stock_prices_1m
  start_date,       \* _get_missing_ranges: argument start_date
  end_date,         \* _get_missing_ranges: argument end_date
  existing_ranges,  \* _get_missing_ranges: result of get_date_ranges
  missing_ranges,   \* _get_missing_ranges: returned list
  gpc,              \* position of the gap calculation: "call" | "done"
  pending,          \* per session: rows written in its open transaction
  txn,              \* per session: "none" | "active" | "aborted"
  bi_pc,            \* per session: position inside bulk_insert
  bi_rows,          \* bulk_insert: rows (the dicts of _to_insert_row)
  bi_idx,           \* _pinpoint_and_log_bulk_error: index of the next row
  bi_count,         \* bulk_insert: inserted_count
  bi_result,        \* what bulk_insert handed to its caller
  row_errors,       \* rows logged as failing_record_identified by the call
  bi_error,         \* the error of the set-based insert of the call, or "none"
  bi_log,           \* per session: the store operations of the bulk_insert call
  drv_pc,           \* SpecStore: the caller, "ready" | "waiting" | "closed" | "off"
  call_before,      \* SpecStore: committed rows when the current call began
  call_repeat,      \* SpecStore: the current call repeats the records of the last
  last_call,        \* SpecStore: the call that finished last
  now,              \* datetime.now(JST) as process_ticker reads it
  days,             \* the lookback of the batch (--days)
  registry,         \* the active tickers, as get_active_tickers returns them
  dry_run,          \* per run: the --dry-run flag
  run_pc,           \* per run: position in process_all_tickers / process_ticker
  tk_idx,           \* per run: index of the ticker being processed
  pt_start,         \* process_ticker: start_date
  pt_end,           \* process_ticker: end_date
  pt_ranges,        \* process_ticker: missing_ranges
  rg_idx,           \* process_ticker: index of the range being processed
  total_imported,   \* process_ticker: total_imported
  store0,           \* the committed rows when the behaviour began
  max_retries,      \* YFinanceFetcher.max_retries
  retry_delay,      \* YFinanceFetcher.retry_delay
  f_pc,             \* per run: position inside _fetch_1m_data_sync
  f_args,           \* per run: ticker, start and end of the fetch call
  f_attempt,        \* per run: attempt, the loop variable
  f_result,         \* per run: what fetch_1m_data handed to its caller
  f_log,            \* per run: provider attempts and sleeps of the fetch call
  range_log,        \* per run: the ranges process_ticker has handled so far
  pt_calls          \* per run: the process_ticker calls of process_all_tickers

gapVars == <<start_date, end_date, existing_ranges, missing_ranges, gpc>>
sessVars == <<pending, txn>>
biVars == <<bi_pc, bi_rows, bi_idx, bi_count, bi_result, row_errors, bi_error, bi_log>>
drvVars == <<drv_pc, call_before, call_repeat, last_call>>
envVars == <<now, days, registry, dry_run, store0, max_retries, retry_delay>>
runVars == <<run_pc, tk_idx, pt_start, pt_end, pt_ranges, rg_idx, total_imported>>
ftVars == <<f_pc, f_args, f_attempt, f_result, f_log>>
logVars == <<range_log, pt_calls>>
vars == <<store, gapVars, sessVars, biVars, drvVars, envVars, runVars, ftVars, logVars>>

\* ---------------------------------------------------------------- datetime
\* datetime.date()
DateOf(t) == t \div TicksPerDay
\* datetime.date() of a datetime read from the store: the value is in UTC.
UtcDateOf(t) == (t - UtcOffset) \div TicksPerDay
\* datetime.combine(d, datetime.min.time())
StartOfDay(d) == d * TicksPerDay
\* datetime.combine(d, datetime.max.time())
EndOfDay(d) == d * TicksPerDay + (TicksPerDay - 1)

SetMin(S) == CHOOSE x \in S : \A y \in S : x <= y
SetMax(S) == CHOOSE x \in S : \A y \in S : x >= y

\* The elements of a set of integers in ascending order.
SortedSeq(S) ==
  [i \in 1..Cardinality(S) |-> CHOOSE x \in S : Cardinality({y \in S : y < x}) = i - 1]

\* ------------------------------------------------------------------- rows
\* One row of stock_prices_1m: the columns the insert decides on, and copy,
\* which stands for the surrogate id column: rows equal in every other column
\* are still distinct rows of the table.  copy is the number of rows with the
\* same (ticker, price_datetime) that were in the table when the row went in.
Row(tk, dt, op) == [ticker |-> tk, price_datetime |-> dt, open |-> op, copy |-> 0]
\* The columns of uq_stock_prices_1m_ticker_price_datetime.
RowKey(r) == <<r.ticker, r.price_datetime>>
Keys(rows) == {RowKey(r) : r \in rows}

\* n bars of ticker tk on day d, one per tick from the start of the day.
DayRows(tk, d, n) == {Row(tk, StartOfDay(d) + i, GoodPrice) : i \in 0..(n - 1)}

\* n bars of ticker tk on day d, one per tick from tick first of the day.
DayRowsFrom(tk, d, first, n) ==
  {Row(tk, StartOfDay(d) + first + i, GoodPrice) : i \in 0..(n - 1)}

\* The first bar of a day's session: at 00:00 Tokyo time (an instrument whose
\* market trades through the Tokyo night, as AAPL) or at 09:00 Tokyo time,
\* which is 00:00 UTC (the Tokyo Stock Exchange, as 8001.T).
SessionOpens == {0, UtcOffset}

\* ------------------------------------------------- StockPrice1mRepository
\* get_date_ranges with the ticker condition of the WHERE clause left out.
GetDateRangesAnyTicker(rows, tk, start, end) ==
  LET sel == {x \in rows :
                   /\ x.price_datetime >= start
                   /\ x.price_datetime <= end}
      dates == SortedSeq({DateOf(x.price_datetime) : x \in sel})
      OfDay(d) == {x \in sel : DateOf(x.price_datetime) = d}
  IN [i \in 1..Len(dates) |->
        [min_dt |-> SetMin({x.price_datetime : x \in OfDay(dates[i])}),
         max_dt |-> SetMax({x.price_datetime : x \in OfDay(dates[i])}),
         count  |-> Cardinality(OfDay(dates[i]))]]

\* get_date_ranges: per calendar day, (min, max, count) of the ticker's rows
\* inside [start, end], ordered by day.
GetDateRanges(rows, tk, start, end) ==
  LET sel == {x \in rows :
                   /\ x.ticker = tk
                   /\ x.price_datetime >= start
                   /\ x.price_datetime <= end}
      dates == SortedSeq({DateOf(x.price_datetime) : x \in sel})
      OfDay(d) == {x \in sel : DateOf(x.price_datetime) = d}
  IN [i \in 1..Len(dates) |->
        [min_dt |-> SetMin({x.price_datetime : x \in OfDay(dates[i])}),
         max_dt |-> SetMax({x.price_datetime : x \in OfDay(dates[i])}),
         count  |-> Cardinality(OfDay(dates[i]))]]

\* The rows a session sees: the committed rows and those of its own
\* transaction (READ COMMITTED).
Visible(r) == store \cup pending[r]

\* Rows other sessions have written and not yet committed.  An insert of the
\* same key waits for that transaction to end.
OthersPending(r) == UNION {pending[o] : o \in Runs \ {r}}

\* A value numeric(10,2) cannot hold: the statement fails with a DataError.
Rejected(v) == v.open >= NumericLimit

\* StockPrice1m.__table_args__: the unique constraint on
\* (ticker, price_datetime), the arbiter of ON CONFLICT.
HasConflict(v, rows) == \E x \in rows : RowKey(x) = RowKey(v)

\* _to_insert_row
ToInsertRow(record) ==
  [ticker |-> record.ticker, price_datetime |-> record.price_datetime,
   open |-> record.open]

\* The insert statement without its on_conflict_do_nothing clause.
BuildInsertStatementPlain(rows, with_returning) ==
  [values |-> rows, on_conflict |-> "none", returning |-> with_returning]

\* The insert statement with on_conflict_do_update in place of
\* on_conflict_do_nothing.
BuildInsertStatementUpdate(rows, with_returning) ==
  [values |-> rows, on_conflict |-> "do_update", returning |-> with_returning]

\* _build_insert_statement
BuildInsertStatement(rows, with_returning) ==
  [values |-> rows, on_conflict |-> "do_nothing", returning |-> with_returning]

\* The rows one INSERT ... VALUES adds to the table, value by value.  A value
\* whose key is in the table (or was added by an earlier value of the same
\* statement) is skipped under ON CONFLICT DO NOTHING and is a unique
\* violation without it; under ON CONFLICT DO UPDATE the value is written as
\* the new version of the row.
RECURSIVE InsertValues(_, _, _, _)
InsertValues(values, on_conflict, table, added) ==
  IF values = <<>>
  THEN [error |-> "none", added |-> added]
  ELSE LET v == Head(values)
           same == {x \in table \cup added : RowKey(x) = RowKey(v)}
       IN IF HasConflict(v, table \cup added)
          THEN IF on_conflict = "do_nothing"
               THEN InsertValues(Tail(values), on_conflict, table, added)
               ELSE IF on_conflict = "do_update"
               THEN InsertValues(Tail(values), on_conflict, table,
                       {x \in added : RowKey(x) # RowKey(v)}
                         \cup {[ticker |-> v.ticker,
                                price_datetime |-> v.price_datetime,
                                open |-> v.open,
                                copy |-> 0]})
               ELSE [error |-> "unique_violation", added |-> {}]
          ELSE InsertValues(Tail(values), on_conflict, table,
                  added \cup {[ticker |-> v.ticker,
                               price_datetime |-> v.price_datetime,
                               open |-> v.open,
                               copy |-> Cardinality(same)]})

\* session.exec(stmt) of an insert statement: a statement with a value the
\* column type rejects fails as a whole and adds nothing.
ExecInsert(stmt, table) ==
  IF \E i \in DOMAIN stmt.values : Rejected(stmt.values[i])
  THEN [error |-> "numeric_value_out_of_range", added |-> {}]
  ELSE InsertValues(stmt.values, stmt.on_conflict, table, {})

\* The statement has to wait: one of its keys is held by another session's
\* open transaction.
MustWait(r, values) ==
  /\ \A i \in DOMAIN values : ~Rejected(values[i])
  /\ \E i \in DOMAIN values : RowKey(values[i]) \in Keys(OthersPending(r))

NoResult == [kind |-> "none", value |-> 0]

\* One store operation of a bulk_insert call: the set-based insert ("bulk"),
\* session.rollback(), session.commit(), or the insert of row idx of the
\* replay inside begin_nested() ("row"), with the error it raised or "none".
StoreOp(op, idx, error) == [op |-> op, idx |-> idx, error |-> error]

\* session.commit(): the rows the transaction wrote become the committed
\* version of their keys.
Commit(table, written) ==
  {x \in table : RowKey(x) \notin Keys(written)} \cup written

\* bulk_insert committing the session before it returns 0 for an empty list.
BiEmptyCommit(r) ==
  /\ bi_pc[r] = "call"
  /\ bi_rows[r] = <<>>
  /\ store' = Commit(store, pending[r])
  /\ pending' = [pending EXCEPT ![r] = {}]
  /\ txn' = [txn EXCEPT ![r] = "none"]
  /\ bi_result' = [bi_result EXCEPT ![r] = [kind |-> "returned", value |-> 0]]
  /\ bi_pc' = [bi_pc EXCEPT ![r] = "done"]
  /\ UNCHANGED <<bi_rows, bi_idx, bi_count, row_errors, bi_error, bi_log>>

\* bulk_insert, lines 99-100: an empty list returns 0 at once.
BiEmpty(r) ==
  /\ bi_pc[r] = "call"
  /\ bi_rows[r] = <<>>
  /\ bi_result' = [bi_result EXCEPT ![r] = [kind |-> "returned", value |-> 0]]
  /\ bi_pc' = [bi_pc EXCEPT ![r] = "done"]
  /\ UNCHANGED <<store, sessVars, bi_rows, bi_idx, bi_count, row_errors, bi_error, bi_log>>

\* bulk_insert, lines 104-107: the set-based insert with RETURNING id.
BiExec(r) ==
  /\ bi_pc[r] = "call"
  /\ bi_rows[r] # <<>>
  /\ ~MustWait(r, bi_rows[r])
  /\ LET res == ExecInsert(BuildInsertStatement(bi_rows[r], TRUE), Visible(r))
     IN /\ IF res.error # "none"
           THEN /\ txn' = [txn EXCEPT ![r] = "aborted"]
                /\ bi_error' = [bi_error EXCEPT ![r] = res.error]
                /\ bi_pc' = [bi_pc EXCEPT ![r] = "rollback"]
                /\ UNCHANGED <<pending, bi_count>>
           ELSE /\ txn' = [txn EXCEPT ![r] = "active"]
                /\ pending' = [pending EXCEPT ![r] = @ \cup res.added]
                /\ bi_count' = [bi_count EXCEPT ![r] = Cardinality(res.added)]
                /\ bi_error' = [bi_error EXCEPT ![r] = "none"]
                /\ bi_pc' = [bi_pc EXCEPT ![r] = "commit"]
        /\ bi_log' = [bi_log EXCEPT ![r] = Append(@, StoreOp("bulk", 0, res.error))]
  /\ UNCHANGED <<store, bi_rows, bi_idx, bi_result, row_errors>>

\* bulk_insert, lines 108-118: commit, then return inserted_count.
BiCommit(r) ==
  /\ bi_pc[r] = "commit"
  /\ store' = Commit(store, pending[r])
  /\ pending' = [pending EXCEPT ![r] = {}]
  /\ txn' = [txn EXCEPT ![r] = "none"]
  /\ bi_result' = [bi_result EXCEPT ![r] = [kind |-> "returned", value |-> bi_count[r]]]
  /\ bi_pc' = [bi_pc EXCEPT ![r] = "done"]
  /\ bi_log' = [bi_log EXCEPT ![r] = Append(@, StoreOp("commit", 0, "none"))]
  /\ UNCHANGED <<bi_rows, bi_idx, bi_count, row_errors, bi_error>>

\* bulk_insert, lines 119-120: except SQLAlchemyError, session.rollback().
BiRollback(r) ==
  /\ bi_pc[r] = "rollback"
  /\ pending' = [pending EXCEPT ![r] = {}]
  /\ txn' = [txn EXCEPT ![r] = "none"]
  /\ bi_idx' = [bi_idx EXCEPT ![r] = 1]
  /\ bi_pc' = [bi_pc EXCEPT ![r] = "replay"]
  /\ bi_log' = [bi_log EXCEPT ![r] = Append(@, StoreOp("rollback", 0, "none"))]
  /\ UNCHANGED <<store, bi_rows, bi_count, bi_result, row_errors, bi_error>>

\* One turn of the replay loop without begin_nested(): a failing row rolls the
\* session's transaction back, with the rows replayed before it.
BiReplayRowNoSavepoint(r) ==
  /\ bi_pc[r] = "replay"
  /\ bi_idx[r] <= Len(bi_rows[r])
  /\ LET row == bi_rows[r][bi_idx[r]]
         res == ExecInsert(BuildInsertStatement(<<row>>, FALSE), Visible(r))
     IN /\ ~MustWait(r, <<row>>)
        /\ IF res.error # "none"
           THEN /\ row_errors' = [row_errors EXCEPT ![r] = @ \cup {[row |-> row, error |-> res.error]}]
                /\ pending' = [pending EXCEPT ![r] = {}]
                /\ txn' = [txn EXCEPT ![r] = "none"]
           ELSE /\ pending' = [pending EXCEPT ![r] = @ \cup res.added]
                /\ txn' = [txn EXCEPT ![r] = "active"]
                /\ UNCHANGED row_errors
        /\ bi_log' = [bi_log EXCEPT ![r] = Append(@, StoreOp("row", bi_idx[r], res.error))]
  /\ bi_idx' = [bi_idx EXCEPT ![r] = @ + 1]
  /\ UNCHANGED <<store, bi_pc, bi_rows, bi_count, bi_result, bi_error>>

\* _pinpoint_and_log_bulk_error, lines 168-180: one turn of the loop.  The row
\* is inserted alone inside begin_nested(), which begins the session's
\* transaction when none is open; a failing row rolls back to its savepoint
\* and is logged, a passing row stays written in the session's transaction.
BiReplayRow(r) ==
  /\ bi_pc[r] = "replay"
  /\ bi_idx[r] <= Len(bi_rows[r])
  /\ LET row == bi_rows[r][bi_idx[r]]
         res == ExecInsert(BuildInsertStatement(<<row>>, FALSE), Visible(r))
     IN /\ ~MustWait(r, <<row>>)
        /\ txn' = [txn EXCEPT ![r] = "active"]
        /\ IF res.error # "none"
           THEN /\ row_errors' = [row_errors EXCEPT ![r] = @ \cup {[row |-> row, error |-> res.error]}]
                /\ UNCHANGED pending
           ELSE /\ pending' = [pending EXCEPT ![r] = @ \cup res.added]
                /\ UNCHANGED row_errors
        /\ bi_log' = [bi_log EXCEPT ![r] = Append(@, StoreOp("row", bi_idx[r], res.error))]
  /\ bi_idx' = [bi_idx EXCEPT ![r] = @ + 1]
  /\ UNCHANGED <<store, bi_pc, bi_rows, bi_count, bi_result, bi_error>>

\* bulk_insert, line 122: after the replay, raise the bulk error.
BiRaise(r) ==
  /\ bi_pc[r] = "replay"
  /\ bi_idx[r] > Len(bi_rows[r])
  /\ bi_result' = [bi_result EXCEPT ![r] = [kind |-> "raised", value |-> 0]]
  /\ bi_pc' = [bi_pc EXCEPT ![r] = "done"]
  /\ UNCHANGED <<store, sessVars, bi_rows, bi_idx, bi_count, row_errors, bi_error, bi_log>>

BulkInsertStep(r) ==
  \/ BiEmpty(r)
  \/ BiExec(r)
  \/ BiCommit(r)
  \/ BiRollback(r)
  \/ BiReplayRow(r)
  \/ BiRaise(r)

\* AsyncSession.__aexit__ (fetch_stock_prices, line 77): close() ends the open
\* transaction without committing it.
SessionClose(r) ==
  /\ pending' = [pending EXCEPT ![r] = {}]
  /\ txn' = [txn EXCEPT ![r] = "none"]

\* ------------------------------------------------------ StockPriceService
\* _to_datetime_range
ToDatetimeRange(s, e) == <<StartOfDay(s), EndOfDay(e)>>

\* The completeness test with > in place of >=.
IsCompleteStrict(count) == count > MIN_RECORDS_PER_DAY

\* The completeness test of one coverage row.
IsComplete(count) == count >= MIN_RECORDS_PER_DAY

\* complete_dates: min_dt.date() of the coverage rows at or above the
\* threshold; min_dt is the datetime the driver returned.
CompleteDates(existing) ==
  {UtcDateOf(existing[i].min_dt) : i \in {j \in DOMAIN existing : IsComplete(existing[j].count)}}

\* The while loop collecting missing_dates from current_date to end_date_only.
RECURSIVE CollectMissing(_, _, _)
CollectMissing(current_date, end_date_only, complete_dates) ==
  IF current_date <= end_date_only
  THEN (IF current_date \notin complete_dates THEN <<current_date>> ELSE <<>>)
         \o CollectMissing(current_date + 1, end_date_only, complete_dates)
  ELSE <<>>

\* The merge loop without range_start_date = d in its else branch.
RECURSIVE MergeLoopNoReset(_, _, _, _)
MergeLoopNoReset(rest, range_start_date, prev_date, merged) ==
  IF rest = <<>>
  THEN Append(merged, ToDatetimeRange(range_start_date, prev_date))
  ELSE IF Head(rest) = prev_date + 1
       THEN MergeLoopNoReset(Tail(rest), range_start_date, Head(rest), merged)
       ELSE MergeLoopNoReset(Tail(rest), range_start_date, Head(rest),
                      Append(merged, ToDatetimeRange(range_start_date, prev_date)))

\* The for loop merging consecutive missing dates, with its final append.
RECURSIVE MergeLoop(_, _, _, _)
MergeLoop(rest, range_start_date, prev_date, merged) ==
  IF rest = <<>>
  THEN Append(merged, ToDatetimeRange(range_start_date, prev_date))
  ELSE IF Head(rest) = prev_date + 1
       THEN MergeLoop(Tail(rest), range_start_date, Head(rest), merged)
       ELSE MergeLoop(Tail(rest), Head(rest), Head(rest),
                      Append(merged, ToDatetimeRange(range_start_date, prev_date)))

\* _get_missing_ranges, lines 222-263: the complete dates, the walk over the
\* calendar days of the window, the merge and the conversion.
PerDayWalk(existing, start, end) ==
  LET missing_dates ==
        CollectMissing(DateOf(start), DateOf(end), CompleteDates(existing))
  IN IF missing_dates = <<>>
     THEN <<>>
     ELSE MergeLoop(Tail(missing_dates), missing_dates[1], missing_dates[1], <<>>)

\* _get_missing_ranges, given the result of get_date_ranges.
GetMissingRanges(existing, start, end) ==
  IF existing = <<>>
  THEN << <<start, end>> >>
  ELSE PerDayWalk(existing, start, end)

\* ------------------------------------------------------- initial values
NoCall == [rows |-> <<>>, kind |-> "none", value |-> 0, before |-> {}, after |-> {},
           repeat |-> FALSE]

InitSessions ==
  /\ pending = [r \in Runs |-> {}]
  /\ txn = [r \in Runs |-> "none"]
  /\ bi_pc = [r \in Runs |-> "idle"]
  /\ bi_rows = [r \in Runs |-> <<>>]
  /\ bi_idx = [r \in Runs |-> 1]
  /\ bi_count = [r \in Runs |-> 0]
  /\ bi_result = [r \in Runs |-> NoResult]
  /\ row_errors = [r \in Runs |-> {}]
  /\ bi_error = [r \in Runs |-> "none"]
  /\ bi_log = [r \in Runs |-> <<>>]

InitGapOff ==
  /\ start_date = 0
  /\ end_date = 0
  /\ existing_ranges = <<>>
  /\ missing_ranges = <<>>
  /\ gpc = "off"

InitDrvOff ==
  /\ drv_pc = "off"
  /\ call_before = {}
  /\ call_repeat = FALSE
  /\ last_call = NoCall

InitRunsOff ==
  /\ now = 0
  /\ days = 0
  /\ registry = <<>>
  /\ dry_run = [r \in Runs |-> FALSE]
  /\ run_pc = [r \in Runs |-> "off"]
  /\ tk_idx = [r \in Runs |-> 1]
  /\ pt_start = [r \in Runs |-> 0]
  /\ pt_end = [r \in Runs |-> 0]
  /\ pt_ranges = [r \in Runs |-> <<>>]
  /\ rg_idx = [r \in Runs |-> 1]
  /\ total_imported = [r \in Runs |-> 0]
  /\ max_retries = 1
  /\ retry_delay = RetryDelay

\* No fetch result yet.
NoFetch == [kind |-> "none", df |-> <<>>]

InitFetchIdle ==
  /\ f_pc = [r \in Runs |-> "idle"]
  /\ f_args = [r \in Runs |-> [ticker |-> "X", start |-> 0, end |-> 0]]
  /\ f_attempt = [r \in Runs |-> 1]
  /\ f_result = [r \in Runs |-> NoFetch]
  /\ f_log = [r \in Runs |-> <<>>]

InitLogs ==
  /\ store0 = store
  /\ range_log = [r \in Runs |-> <<>>]
  /\ pt_calls = [r \in Runs |-> <<>>]

\* ---------------------------------------------- specification SpecGap
\* The gap calculation on every window over the sampled instants and every
\* store of the family below.
SampleInstants ==
  UNION {{StartOfDay(d), StartOfDay(d) + MidTick, EndOfDay(d)} : d \in Days}

\* Per day the ticker holds no bar, one bar short of the threshold, or
\* exactly the threshold.
DayFills == {0, MIN_RECORDS_PER_DAY - 1, MIN_RECORDS_PER_DAY}

StoreFamily ==
  {UNION {DayRowsFrom("X", d, o, f[d]) : d \in Days} \cup other :
     f \in [Days -> DayFills],
     o \in SessionOpens,
     other \in {{}, DayRows("Y", 0, MIN_RECORDS_PER_DAY)}}

InitGap ==
  /\ store \in StoreFamily
  /\ start_date \in SampleInstants
  /\ end_date \in SampleInstants
  /\ existing_ranges = <<>>
  /\ missing_ranges = <<>>
  /\ gpc = "call"
  /\ InitSessions
  /\ InitDrvOff
  /\ InitRunsOff
  /\ InitFetchIdle
  /\ InitLogs

GapCall ==
  /\ gpc = "call"
  /\ existing_ranges' = GetDateRanges(store, "X", start_date, end_date)
  /\ missing_ranges' = GetMissingRanges(existing_ranges', start_date, end_date)
  /\ gpc' = "done"
  /\ UNCHANGED <<store, start_date, end_date, sessVars, biVars, drvVars, envVars, runVars, ftVars,
                 logVars>>

NextGap == GapCall

SpecGap == InitGap /\ [][NextGap]_vars

\* -------------------------------------------- specification SpecStore
\* One session whose caller hands bulk_insert every record list up to
\* MaxRecords over a few keys, call after call, and then closes the session.
DrvRun == "r1"
DrvRecords ==
  {[ticker |-> "X", price_datetime |-> t, open |-> o] :
     t \in {0, 1}, o \in {GoodPrice, NumericLimit}}
DrvRecordLists == UNION {[1..n -> DrvRecords] : n \in 0..MaxRecords}

InitStore ==
  /\ store \in {{}, {Row("X", 0, AltPrice)}, {Row("X", 0, AltPrice), Row("Y", 1, AltPrice)}}
  /\ InitSessions
  /\ InitGapOff
  /\ InitRunsOff
  /\ InitFetchIdle
  /\ InitLogs
  /\ drv_pc = "ready"
  /\ call_before = {}
  /\ call_repeat = FALSE
  /\ last_call = NoCall

\* The caller builds the records and awaits bulk_insert(records).
DrvCall(records) ==
  /\ drv_pc = "ready"
  /\ drv_pc' = "waiting"
  /\ call_before' = store
  /\ call_repeat' = (last_call.kind # "none"
                       /\ last_call.rows = [i \in DOMAIN records |-> ToInsertRow(records[i])])
  /\ bi_rows' = [bi_rows EXCEPT ![DrvRun] = [i \in DOMAIN records |-> ToInsertRow(records[i])]]
  /\ bi_pc' = [bi_pc EXCEPT ![DrvRun] = "call"]
  /\ bi_result' = [bi_result EXCEPT ![DrvRun] = NoResult]
  /\ row_errors' = [row_errors EXCEPT ![DrvRun] = {}]
  /\ bi_error' = [bi_error EXCEPT ![DrvRun] = "none"]
  /\ bi_log' = [bi_log EXCEPT ![DrvRun] = <<>>]
  /\ UNCHANGED <<store, gapVars, sessVars, bi_idx, bi_count, last_call, envVars, runVars, ftVars,
                 logVars>>

\* bulk_insert has returned or raised: the caller notes the outcome.
DrvReturn ==
  /\ drv_pc = "waiting"
  /\ bi_pc[DrvRun] = "done"
  /\ drv_pc' = "ready"
  /\ bi_pc' = [bi_pc EXCEPT ![DrvRun] = "idle"]
  /\ last_call' = [rows |-> bi_rows[DrvRun],
                   kind |-> bi_result[DrvRun].kind,
                   value |-> bi_result[DrvRun].value,
                   before |-> call_before,
                   after |-> store,
                   repeat |-> call_repeat]
  /\ UNCHANGED <<store, gapVars, sessVars, bi_rows, bi_idx, bi_count, bi_result,
                 row_errors, bi_error, bi_log, call_before, call_repeat, envVars, runVars, ftVars,
                 logVars>>

\* The caller leaves the async with block of its session.
DrvClose ==
  /\ drv_pc = "ready"
  /\ drv_pc' = "closed"
  /\ SessionClose(DrvRun)
  /\ UNCHANGED <<store, gapVars, biVars, call_before, call_repeat, last_call, envVars, runVars, ftVars,
                 logVars>>

DrvBulkInsert ==
  /\ drv_pc = "waiting"
  /\ BulkInsertStep(DrvRun)
  /\ UNCHANGED <<gapVars, drvVars, envVars, runVars, ftVars,
                 logVars>>

NextStore ==
  \/ \E records \in DrvRecordLists : DrvCall(records)
  \/ DrvBulkInsert
  \/ DrvReturn
  \/ DrvClose

SpecStore == InitStore /\ [][NextStore]_vars

\* --------------------------------------------------- the data provider
\* A missing value of a price column.
NaN == -1

\* The bars the provider holds for a range: BarsPerDay bars per day, none
\* later than now.
ProviderTicks(rs, re) ==
  {t \in UNION {{StartOfDay(d) + i : i \in 0..(BarsPerDay - 1)} : d \in Days} :
     t >= rs /\ t <= re /\ t <= now}

\* A DataFrame: its rows in index order.
Frame(ticks, price) ==
  LET ts == SortedSeq(ticks)
  IN [i \in 1..Len(ts) |-> [price_datetime |-> ts[i], open |-> price]]

\* The frame with the open of its last row replaced by a value numeric(10,2)
\* cannot hold.
Corrupt(df) ==
  [i \in DOMAIN df |-> IF i = Len(df) THEN [df[i] EXCEPT !.open = NumericLimit] ELSE df[i]]

\* The frame with the open of its first row missing.
WithNaN(df) ==
  [i \in DOMAIN df |-> IF i = 1 THEN [df[i] EXCEPT !.open = NaN] ELSE df[i]]

\* What Ticker.history may return for a range: nothing, the provider's bars
\* at either price, the bars with a corrupt last row, or the bars with a
\* missing value in the first row.
FetchFrames(rs, re) ==
  LET ticks == ProviderTicks(rs, re)
  IN {<<>>, Frame(ticks, GoodPrice), Frame(ticks, AltPrice),
      Corrupt(Frame(ticks, GoodPrice)), WithNaN(Frame(ticks, GoodPrice))}

\* -------------------------------------------------------- YFinanceFetcher
\* df.dropna(), line 165
RECURSIVE DropNa(_)
DropNa(df) ==
  IF df = <<>> THEN <<>>
  ELSE (IF Head(df).open = NaN THEN <<>> ELSE <<Head(df)>>) \o DropNa(Tail(df))

\* _validate_and_clean: an empty frame is returned as it is, the rows with a
\* missing value are dropped.
ValidateAndClean(df) == IF df = <<>> THEN df ELSE DropNa(df)

\* One event of a fetch call: a provider attempt that answered ("ok", with
\* the number of rows the provider gave) or raised ("fail"), or a sleep.
FetchEvent(ev, attempt, secs, rows) ==
  [ev |-> ev, attempt |-> attempt, secs |-> secs, rows |-> rows]

\* The test of line 117 with <= in place of <.
RetryAgainLate(attempt, max) == attempt <= max

\* _fetch_1m_data_sync, line 117: attempt < self.max_retries
RetryAgain(attempt, max) == attempt < max

\* fetch_1m_data and the head of the for loop, line 94: range(1, max_retries
\* + 1) is empty when max_retries < 1, and line 127 returns an empty frame.
FetchBegin(r, tk, s, e) ==
  /\ f_args' = [f_args EXCEPT ![r] = [ticker |-> tk, start |-> s, end |-> e]]
  /\ f_attempt' = [f_attempt EXCEPT ![r] = 1]
  /\ f_log' = [f_log EXCEPT ![r] = <<>>]
  /\ IF 1 < max_retries + 1
     THEN /\ f_pc' = [f_pc EXCEPT ![r] = "attempt"]
          /\ f_result' = [f_result EXCEPT ![r] = NoFetch]
     ELSE /\ f_pc' = [f_pc EXCEPT ![r] = "done"]
          /\ f_result' = [f_result EXCEPT ![r] = [kind |-> "returned", df |-> <<>>]]

\* Lines 102-113: the provider answers, the frame is cleaned and returned.
FtAttemptOk(r) ==
  /\ f_pc[r] = "attempt"
  /\ \E raw \in FetchFrames(f_args[r].start, f_args[r].end) :
        /\ f_result' = [f_result EXCEPT ![r] =
                          [kind |-> "returned", df |-> ValidateAndClean(raw)]]
        /\ f_log' = [f_log EXCEPT ![r] = Append(@, FetchEvent("ok", f_attempt[r], 0, Len(raw)))]
  /\ f_pc' = [f_pc EXCEPT ![r] = "done"]
  /\ UNCHANGED <<f_args, f_attempt>>

\* Lines 115-124: the attempt raises; a further attempt follows after the
\* delay, the last attempt re-raises.
FtAttemptFails(r) ==
  /\ f_pc[r] = "attempt"
  /\ f_log' = [f_log EXCEPT ![r] = Append(@, FetchEvent("fail", f_attempt[r], 0, 0))]
  /\ IF RetryAgain(f_attempt[r], max_retries)
     THEN /\ f_pc' = [f_pc EXCEPT ![r] = "sleep"]
          /\ UNCHANGED f_result
     ELSE /\ f_pc' = [f_pc EXCEPT ![r] = "done"]
          /\ f_result' = [f_result EXCEPT ![r] = [kind |-> "raised", df |-> <<>>]]
  /\ UNCHANGED <<f_args, f_attempt>>

\* Line 121, time.sleep(self.retry_delay), and the next turn of the for loop;
\* the loop running out falls through to line 127.
FtSleep(r) ==
  /\ f_pc[r] = "sleep"
  /\ f_log' = [f_log EXCEPT ![r] = Append(@, FetchEvent("sleep", f_attempt[r], retry_delay, 0))]
  /\ f_attempt' = [f_attempt EXCEPT ![r] = @ + 1]
  /\ IF f_attempt[r] + 1 < max_retries + 1
     THEN /\ f_pc' = [f_pc EXCEPT ![r] = "attempt"]
          /\ UNCHANGED f_result
     ELSE /\ f_pc' = [f_pc EXCEPT ![r] = "done"]
          /\ f_result' = [f_result EXCEPT ![r] = [kind |-> "returned", df |-> <<>>]]
  /\ UNCHANGED f_args

FetchStep(r) ==
  \/ FtAttemptOk(r)
  \/ FtAttemptFails(r)
  \/ FtSleep(r)

\* -------------------------------------------- specification SpecFetch
\* One fetcher, built with any max_retries from -1 to MaxRetries and either
\* delay, and one call of fetch_1m_data on it; every provider attempt may
\* answer or raise.
FetchRanges ==
  {<<StartOfDay(d), EndOfDay(d)>> : d \in Days} \cup {<<StartOfDay(0), EndOfDay(MaxDay)>>}

InitFetch ==
  /\ store = {}
  /\ InitSessions
  /\ InitGapOff
  /\ now = StartOfDay(MaxDay) + MidTick
  /\ days = 0
  /\ registry = <<>>
  /\ dry_run = [r \in Runs |-> FALSE]
  /\ run_pc = [r \in Runs |-> "off"]
  /\ tk_idx = [r \in Runs |-> 1]
  /\ pt_start = [r \in Runs |-> 0]
  /\ pt_end = [r \in Runs |-> 0]
  /\ pt_ranges = [r \in Runs |-> <<>>]
  /\ rg_idx = [r \in Runs |-> 1]
  /\ total_imported = [r \in Runs |-> 0]
  /\ max_retries \in -1..MaxRetries
  /\ retry_delay \in {0, RetryDelay}
  /\ InitFetchIdle
  /\ InitLogs
  /\ drv_pc = "ready"
  /\ call_before = {}
  /\ call_repeat = FALSE
  /\ last_call = NoCall

\* The caller awaits fetch_1m_data(ticker, start, end).
FdCall(tk, s, e) ==
  /\ drv_pc = "ready"
  /\ drv_pc' = "waiting"
  /\ FetchBegin(DrvRun, tk, s, e)
  /\ UNCHANGED <<store, gapVars, sessVars, biVars, call_before, call_repeat, last_call,
                 envVars, runVars, logVars>>

\* The retry loop runs in its worker thread.
FdFetcher ==
  /\ drv_pc = "waiting"
  /\ FetchStep(DrvRun)
  /\ UNCHANGED <<store, gapVars, sessVars, biVars, drvVars, envVars, runVars, logVars>>

\* fetch_1m_data has returned or raised.
FdReturn ==
  /\ drv_pc = "waiting"
  /\ f_pc[DrvRun] = "done"
  /\ drv_pc' = "closed"
  /\ UNCHANGED <<store, gapVars, sessVars, biVars, call_before, call_repeat, last_call,
                 envVars, runVars, ftVars, logVars>>

NextFetch ==
  \/ \E tk \in {"X", "Y"}, rg \in FetchRanges : FdCall(tk, rg[1], rg[2])
  \/ FdFetcher
  \/ FdReturn

SpecFetch == InitFetch /\ [][NextFetch]_vars

\* The worker thread keeps running: a provider attempt ends (it answers or
\* raises), a sleep ends, and the awaiting caller is resumed.
SpecFetchFair == SpecFetch /\ WF_vars(NextFetch)

\* ------------------------------------------- StockPriceService, the batch
\* process_ticker, lines 123-126: the window.
WindowStart(n, d) == StartOfDay(DateOf(n - d * TicksPerDay))

\* _import_price_data, lines 286-297: the records of a frame.
RecordsOf(tk, df) ==
  [i \in DOMAIN df |-> [ticker |-> tk, price_datetime |-> df[i].price_datetime, open |-> df[i].open]]

CurTicker(r) == registry[tk_idx[r]]
CurRange(r) == pt_ranges[r][rg_idx[r]]

\* One handled range: the events of its fetch call and what the call gave,
\* what the insert gave, and what was added to total_imported.
RangeEntry(rg, events, fetch, df, insert, added) ==
  [range |-> rg, events |-> events, fetch |-> fetch, df |-> df, insert |-> insert,
   added |-> added]
\* One process_ticker call: "running", or how it ended and with what count.
CallEntry(tk, kind, value) == [ticker |-> tk, kind |-> kind, value |-> value]
SetLast(seq, e) == [seq EXCEPT ![Len(seq)] = e]

\* if df.empty with the test never true.
IsEmptyFrameNever(df) == FALSE

\* process_ticker, line 149: if df.empty
IsEmptyFrame(df) == df = <<>>

\* if dry_run with the flag ignored.
IsDryRunNever(r) == FALSE

\* process_ticker, line 156: if dry_run
IsDryRun(r) == dry_run[r]

\* process_all_tickers, lines 79-82: get_active_tickers.
RunBegin(r) ==
  /\ run_pc[r] = "begin"
  /\ run_pc' = [run_pc EXCEPT ![r] = "ticker"]
  /\ tk_idx' = [tk_idx EXCEPT ![r] = 1]
  /\ txn' = [txn EXCEPT ![r] = "active"]
  /\ UNCHANGED <<store, pending, gapVars, biVars, drvVars, envVars, ftVars, logVars,
                 pt_start, pt_end, pt_ranges, rg_idx, total_imported>>

\* process_ticker, lines 120-140: the window, the coverage query and the gap
\* calculation; no range to fetch returns 0.
PtGetRanges(r) ==
  /\ run_pc[r] = "ticker"
  /\ tk_idx[r] <= Len(registry)
  /\ txn[r] # "aborted"
  /\ LET e == now
         b == WindowStart(now, days)
         ranges == GetMissingRanges(GetDateRanges(Visible(r), CurTicker(r), b, e), b, e)
     IN /\ pt_start' = [pt_start EXCEPT ![r] = b]
        /\ pt_end' = [pt_end EXCEPT ![r] = e]
        /\ pt_ranges' = [pt_ranges EXCEPT ![r] = ranges]
        /\ rg_idx' = [rg_idx EXCEPT ![r] = 1]
        /\ total_imported' = [total_imported EXCEPT ![r] = 0]
        /\ range_log' = [range_log EXCEPT ![r] = <<>>]
        /\ IF ranges = <<>>
           THEN /\ tk_idx' = [tk_idx EXCEPT ![r] = @ + 1]
                /\ pt_calls' = [pt_calls EXCEPT ![r] =
                                  Append(@, CallEntry(CurTicker(r), "returned", 0))]
                /\ UNCHANGED run_pc
           ELSE /\ run_pc' = [run_pc EXCEPT ![r] = "fetch"]
                /\ pt_calls' = [pt_calls EXCEPT ![r] =
                                  Append(@, CallEntry(CurTicker(r), "running", 0))]
                /\ UNCHANGED tk_idx
  /\ txn' = [txn EXCEPT ![r] = "active"]
  /\ UNCHANGED <<store, pending, gapVars, biVars, drvVars, envVars, ftVars>>

\* The except branch of process_all_tickers leaving the loop over the tickers.
SkipTickerAbort(r) == tk_idx' = [tk_idx EXCEPT ![r] = Len(registry) + 1]

\* process_all_tickers, lines 92-97: except Exception, log the ticker,
\* continue.
SkipTicker(r) == tk_idx' = [tk_idx EXCEPT ![r] = @ + 1]

\* process_ticker, line 128, and process_all_tickers, lines 92-97: the
\* coverage query raises (the store is unreachable, or the session's
\* transaction is in a failed state), process_ticker raises, the loop logs
\* the ticker and goes on.  The failed statement may leave the transaction
\* of the session in the failed state; nothing in this path rolls it back.
PtGetRangesFails(r) ==
  /\ run_pc[r] = "ticker"
  /\ tk_idx[r] <= Len(registry)
  /\ \E t \in {"active", "aborted"} :
        /\ txn[r] = "aborted" => t = "aborted"
        /\ txn' = [txn EXCEPT ![r] = t]
  /\ pt_calls' = [pt_calls EXCEPT ![r] = Append(@, CallEntry(CurTicker(r), "raised", 0))]
  /\ range_log' = [range_log EXCEPT ![r] = <<>>]
  /\ pt_ranges' = [pt_ranges EXCEPT ![r] = <<>>]
  /\ rg_idx' = [rg_idx EXCEPT ![r] = 1]
  /\ total_imported' = [total_imported EXCEPT ![r] = 0]
  /\ SkipTicker(r)
  /\ UNCHANGED <<store, pending, gapVars, biVars, drvVars, envVars, ftVars,
                 run_pc, pt_start, pt_end>>

\* The for loop moves to the next range, or process_ticker returns
\* total_imported and process_all_tickers moves to the next ticker.
NextRange(r, total) ==
  IF rg_idx[r] < Len(pt_ranges[r])
  THEN /\ rg_idx' = [rg_idx EXCEPT ![r] = @ + 1]
       /\ run_pc' = [run_pc EXCEPT ![r] = "fetch"]
       /\ UNCHANGED <<tk_idx, pt_calls>>
  ELSE /\ tk_idx' = [tk_idx EXCEPT ![r] = @ + 1]
       /\ run_pc' = [run_pc EXCEPT ![r] = "ticker"]
       /\ pt_calls' = [pt_calls EXCEPT ![r] =
                         SetLast(@, CallEntry(CurTicker(r), "returned", total))]
       /\ UNCHANGED rg_idx

\* The except branch leaving the for loop instead of going on with it.
SkipRangeBreak(r, total) ==
  /\ tk_idx' = [tk_idx EXCEPT ![r] = @ + 1]
  /\ run_pc' = [run_pc EXCEPT ![r] = "ticker"]
  /\ pt_calls' = [pt_calls EXCEPT ![r] =
                    SetLast(@, CallEntry(CurTicker(r), "returned", total))]
  /\ UNCHANGED rg_idx

\* process_ticker, lines 176-181: except Exception, log the range, continue.
SkipRange(r, total) == NextRange(r, total)

\* The bounds the fetcher was called with.
FetchedRange(r) == <<f_args[r].start, f_args[r].end>>

\* The fetch called with the bounds of the window in place of the range's.
PtFetchCallWindow(r) ==
  /\ run_pc[r] = "fetch"
  /\ run_pc' = [run_pc EXCEPT ![r] = "fetching"]
  /\ FetchBegin(r, CurTicker(r), pt_start[r], pt_end[r])
  /\ UNCHANGED <<store, sessVars, gapVars, biVars, drvVars, envVars, logVars,
                 tk_idx, pt_start, pt_end, pt_ranges, rg_idx, total_imported>>

\* process_ticker, lines 143-147: await fetcher.fetch_1m_data(...).
PtFetchCall(r) ==
  /\ run_pc[r] = "fetch"
  /\ run_pc' = [run_pc EXCEPT ![r] = "fetching"]
  /\ FetchBegin(r, CurTicker(r), CurRange(r)[1], CurRange(r)[2])
  /\ UNCHANGED <<store, sessVars, gapVars, biVars, drvVars, envVars, logVars,
                 tk_idx, pt_start, pt_end, pt_ranges, rg_idx, total_imported>>

\* The fetch runs in its worker thread.
PtFetcher(r) ==
  /\ run_pc[r] = "fetching"
  /\ FetchStep(r)
  /\ UNCHANGED <<store, sessVars, gapVars, biVars, drvVars, envVars, runVars, logVars>>

\* process_ticker, lines 143-168 and 176-181: fetch_1m_data raised (the
\* range is logged and skipped) or returned a frame; an empty frame is
\* skipped, a dry run counts it, otherwise the frame is imported.
PtFetchDone(r) ==
  /\ run_pc[r] = "fetching"
  /\ f_pc[r] = "done"
  /\ f_pc' = [f_pc EXCEPT ![r] = "idle"]
  /\ LET df == f_result[r].df
     IN IF f_result[r].kind = "raised"
        THEN /\ range_log' = [range_log EXCEPT ![r] =
                                Append(@, RangeEntry(FetchedRange(r), f_log[r], "raised", <<>>, "none", 0))]
             /\ SkipRange(r, total_imported[r])
             /\ UNCHANGED <<total_imported, biVars>>
        ELSE IF IsEmptyFrame(df)
        THEN /\ range_log' = [range_log EXCEPT ![r] =
                                Append(@, RangeEntry(FetchedRange(r), f_log[r], "returned", df, "none", 0))]
             /\ NextRange(r, total_imported[r])
             /\ UNCHANGED <<total_imported, biVars>>
        ELSE IF IsDryRun(r)
        THEN /\ range_log' = [range_log EXCEPT ![r] =
                                Append(@, RangeEntry(FetchedRange(r), f_log[r], "returned", df, "none", Len(df)))]
             /\ total_imported' = [total_imported EXCEPT ![r] = @ + Len(df)]
             /\ NextRange(r, total_imported[r] + Len(df))
             /\ UNCHANGED biVars
        ELSE /\ range_log' = [range_log EXCEPT ![r] =
                                Append(@, RangeEntry(FetchedRange(r), f_log[r], "returned", df, "called", 0))]
             /\ bi_rows' = [bi_rows EXCEPT ![r] =
                              [i \in DOMAIN df |-> ToInsertRow(RecordsOf(CurTicker(r), df)[i])]]
             /\ bi_pc' = [bi_pc EXCEPT ![r] = "call"]
             /\ bi_result' = [bi_result EXCEPT ![r] = NoResult]
             /\ row_errors' = [row_errors EXCEPT ![r] = {}]
             /\ bi_error' = [bi_error EXCEPT ![r] = "none"]
             /\ bi_log' = [bi_log EXCEPT ![r] = <<>>]
             /\ run_pc' = [run_pc EXCEPT ![r] = "import"]
             /\ UNCHANGED <<bi_idx, bi_count, tk_idx, rg_idx, total_imported, pt_calls>>
  /\ UNCHANGED <<store, sessVars, gapVars, drvVars, envVars, pt_start, pt_end, pt_ranges,
                 f_args, f_attempt, f_result, f_log>>

\* _import_price_data awaits bulk_insert.
PtBulkInsert(r) ==
  /\ run_pc[r] = "import"
  /\ BulkInsertStep(r)
  /\ UNCHANGED <<gapVars, drvVars, envVars, runVars, ftVars, logVars>>

\* process_ticker, lines 165-181: bulk_insert returned (the count is added)
\* or raised (the range is logged and skipped).
PtImportDone(r) ==
  /\ run_pc[r] = "import"
  /\ bi_pc[r] = "done"
  /\ bi_pc' = [bi_pc EXCEPT ![r] = "idle"]
  /\ LET imported_count == IF bi_result[r].kind = "returned" THEN bi_result[r].value ELSE 0
         last == range_log[r][Len(range_log[r])]
     IN /\ total_imported' = [total_imported EXCEPT ![r] = @ + imported_count]
        /\ range_log' = [range_log EXCEPT ![r] =
                           SetLast(@, [last EXCEPT !.insert = bi_result[r].kind,
                                                   !.added = imported_count])]
        /\ IF bi_result[r].kind = "returned"
           THEN NextRange(r, total_imported[r] + imported_count)
           ELSE SkipRange(r, total_imported[r])
  /\ UNCHANGED <<store, sessVars, gapVars, drvVars, envVars, ftVars, pt_start, pt_end,
                 pt_ranges, bi_rows, bi_idx, bi_count, bi_result, row_errors, bi_error, bi_log>>

\* fetch_stock_prices, lines 77-94: process_all_tickers has returned and the
\* session is closed.
RunClose(r) ==
  /\ run_pc[r] = "ticker"
  /\ tk_idx[r] > Len(registry)
  /\ run_pc' = [run_pc EXCEPT ![r] = "closed"]
  /\ SessionClose(r)
  /\ UNCHANGED <<store, gapVars, biVars, drvVars, envVars, ftVars, logVars,
                 tk_idx, pt_start, pt_end, pt_ranges, rg_idx, total_imported>>

\* ------------------------------------------------- specification Spec
\* Two batch runs, each with its own session, against one instrument and one
\* table; their store operations interleave freely.  The table starts empty,
\* with one bar of today, or with a complete day of Tokyo hours in the middle
\* of the window.
SeedStores ==
  {{},
   {Row("X", StartOfDay(MaxDay), AltPrice)},
   DayRowsFrom("X", MaxDay - 1, UtcOffset, MIN_RECORDS_PER_DAY)}

Init ==
  /\ store \in SeedStores
  /\ InitSessions
  /\ InitGapOff
  /\ InitDrvOff
  /\ now = StartOfDay(MaxDay) + MidTick
  /\ days \in {0, MaxDay}
  /\ registry = <<"X">>
  /\ dry_run \in {[r \in Runs |-> FALSE], [r \in Runs |-> r = "r1"]}
  /\ run_pc = [r \in Runs |-> "begin"]
  /\ tk_idx = [r \in Runs |-> 1]
  /\ pt_start = [r \in Runs |-> 0]
  /\ pt_end = [r \in Runs |-> 0]
  /\ pt_ranges = [r \in Runs |-> <<>>]
  /\ rg_idx = [r \in Runs |-> 1]
  /\ total_imported = [r \in Runs |-> 0]
  /\ max_retries = 1
  /\ retry_delay = RetryDelay
  /\ InitFetchIdle
  /\ InitLogs

Next ==
  \E r \in Runs :
     \/ RunBegin(r)
     \/ PtGetRanges(r)
     \/ PtGetRangesFails(r)
     \/ PtFetchCall(r)
     \/ PtFetcher(r)
     \/ PtFetchDone(r)
     \/ PtBulkInsert(r)
     \/ PtImportDone(r)
     \/ RunClose(r)

Spec == Init /\ [][Next]_vars

\* -------------------------------------------- specification SpecBatch
\* One batch run over two instruments, in the morning or at the end of the
\* day; the store holds nothing, one bar of today, a complete day in the
\* middle of the window for the first instrument (its session opening at
\* either hour), or every day complete for the first instrument and the
\* middle day for the second.
BatchRun == "r1"
FullStore ==
  UNION {DayRowsFrom("X", d, UtcOffset, MIN_RECORDS_PER_DAY) : d \in Days}
    \cup DayRowsFrom("Y", MaxDay - 1, UtcOffset, MIN_RECORDS_PER_DAY)
BatchStores ==
  SeedStores \cup {DayRows("X", MaxDay - 1, MIN_RECORDS_PER_DAY), FullStore}
InitBatch ==
  /\ store \in BatchStores
  /\ InitSessions
  /\ InitGapOff
  /\ InitDrvOff
  /\ now \in {StartOfDay(MaxDay) + MidTick, EndOfDay(MaxDay)}
  /\ {x \in store : x.price_datetime > now} = {}
  /\ days \in {0, MaxDay}
  /\ registry = <<"X", "Y">>
  /\ dry_run \in {[r \in Runs |-> FALSE], [r \in Runs |-> r = BatchRun]}
  /\ run_pc = [r \in Runs |-> IF r = BatchRun THEN "begin" ELSE "off"]
  /\ tk_idx = [r \in Runs |-> 1]
  /\ pt_start = [r \in Runs |-> 0]
  /\ pt_end = [r \in Runs |-> 0]
  /\ pt_ranges = [r \in Runs |-> <<>>]
  /\ rg_idx = [r \in Runs |-> 1]
  /\ total_imported = [r \in Runs |-> 0]
  /\ max_retries \in {1, 2}
  /\ retry_delay = RetryDelay
  /\ InitFetchIdle
  /\ InitLogs

SpecBatch == InitBatch /\ [][Next]_vars

\* ========================================================== claims: Spec
\* Every row of the table, committed or written in an open transaction.
TableRows == store \cup UNION {pending[r] : r \in Runs}
RECURSIVE SumPending(_)
SumPending(S) ==
  IF S = {} THEN 0
  ELSE LET r == CHOOSE x \in S : TRUE IN Cardinality(pending[r]) + SumPending(S \ {r})

\* C1: under every interleaving of the two runs the table holds at most one
\* row per (ticker, price_datetime), committed or not, and no insert, set-based
\* or replayed, fails with a unique violation: a row whose key is present is
\* skipped.
C1_OneRowPerKey ==
  /\ Cardinality(Keys(TableRows)) = Cardinality(store) + SumPending(Runs)
  /\ \A r \in Runs :
        /\ bi_error[r] # "unique_violation"
        /\ \A e \in row_errors[r] : e.error # "unique_violation"

\* Both runs fetched the same range and got the same bars; r1 inserted them
\* all and r2, inserting the same keys, skipped them all without an error.
C1_Witness ==
  /\ bi_pc["r2"] = "commit"
  /\ bi_rows["r2"] # <<>>
  /\ bi_count["r2"] = 0
  /\ bi_rows["r1"] = bi_rows["r2"]
  /\ bi_result["r1"] = [kind |-> "returned", value |-> Len(bi_rows["r1"])]
  /\ pt_ranges["r1"] = pt_ranges["r2"]

\* A run whose next statement waits for another session's transaction.
Waits(r) ==
  /\ run_pc[r] = "import"
  /\ \/ bi_pc[r] = "call" /\ bi_rows[r] # <<>> /\ MustWait(r, bi_rows[r])
     \/ /\ bi_pc[r] = "replay"
        /\ bi_idx[r] <= Len(bi_rows[r])
        /\ MustWait(r, <<bi_rows[r][bi_idx[r]]>>)

\* The waits never form a cycle: while a session is open, some run can step.
NoRunStuck ==
  (\E r \in Runs : run_pc[r] # "closed") =>
     \E r \in Runs : run_pc[r] # "closed" /\ ~Waits(r)

\* Some run does wait for the other's transaction.
SomeRunWaits == \E r \in Runs : Waits(r)

\* The process_ticker call a run made last.
LastCall(r) == pt_calls[r][Len(pt_calls[r])]

\* The table held no row of the ticker when the runs began.
NoRowsAtStart(tk) == \A x \in store0 : x.ticker # tk

\* The fetcher answered the two runs alike: the same ranges were fetched and
\* each fetch raised for both or returned the same frame to both.
SameResponses(a, b) ==
  /\ Len(range_log[a]) = Len(range_log[b])
  /\ \A i \in DOMAIN range_log[a] :
        /\ range_log[a][i].range = range_log[b][i].range
        /\ range_log[a][i].fetch = range_log[b][i].fetch
        /\ range_log[a][i].df = range_log[b][i].df

\* r1 ran process_ticker as a dry run and r2 as a real run, on a ticker with
\* no rows, with the same window and the same fetcher responses.
DryAndRealRan ==
  /\ dry_run["r1"] /\ ~dry_run["r2"]
  /\ NoRowsAtStart("X")
  /\ pt_calls["r1"] # <<>> /\ LastCall("r1").kind = "returned"
  /\ pt_calls["r2"] # <<>> /\ LastCall("r2").kind = "returned"
  /\ pt_start["r1"] = pt_start["r2"] /\ pt_end["r1"] = pt_end["r2"]
  /\ SameResponses("r1", "r2")

\* Some frame the real run fetched holds a value the store rejects.
RejectedFrameFetched(r) ==
  \E i \in DOMAIN range_log[r] :
     \E j \in DOMAIN range_log[r][i].df : Rejected(range_log[r][i].df[j])

\* C14: the count process_ticker returns in the dry run equals the count it
\* returns in the real run.
C14_DryCountMatchesReal ==
  DryAndRealRan => LastCall("r1").value = LastCall("r2").value

\* C14 for the fetcher responses whose values the store accepts.
C14_DryCountMatchesRealAccepted ==
  (DryAndRealRan /\ ~RejectedFrameFetched("r2")) =>
     LastCall("r1").value = LastCall("r2").value

\* The counts agree on accepted bars: both are above 0.
C14_AcceptedReached ==
  DryAndRealRan /\ ~RejectedFrameFetched("r2") /\ LastCall("r2").value > 0

\* C17: under every interleaving of the two runs (inserts that succeed,
\* inserts that fail and are rolled back and replayed, inserts of keys
\* already stored with other values) every committed row stays committed
\* with the values it has: each step leaves the committed row set as it is
\* or adds rows to it.
C17_CommittedRowsKept == [][store \subseteq store']_vars

\* A run's insert held a key that was stored at the start with another
\* price; the insert returned and the stored row is as it was.
C17_Witness ==
  \E r \in Runs :
     /\ bi_pc[r] = "done"
     /\ bi_result[r].kind = "returned"
     /\ \E i \in DOMAIN bi_rows[r] :
          \E x \in store0 :
             /\ RowKey(x) = RowKey(bi_rows[r][i])
             /\ x.open # bi_rows[r][i].open
             /\ x \in store

\* ===================================================== claims: SpecBatch
\* The ranges process_ticker has handled in its current call, in order.
LoggedRanges(r) == [i \in DOMAIN range_log[r] |-> range_log[r][i].range]
\* Handling the range ended in the except branch.
RangeFailed(e) == e.fetch = "raised" \/ e.insert = "raised"

\* C11: once the fetch or the insert of a range has raised, process_ticker
\* still does not raise: while it runs the ranges handled are the first
\* ranges of missing_ranges, each once and in order, and when it has
\* returned every range of missing_ranges has been fetched.
C11_RangeFailureIsolated ==
  \A r \in Runs :
     (pt_calls[r] # <<>> /\ \E i \in DOMAIN range_log[r] : RangeFailed(range_log[r][i])) =>
        /\ LastCall(r).kind \in {"running", "returned"}
        /\ Len(range_log[r]) <= Len(pt_ranges[r])
        /\ LoggedRanges(r) = SubSeq(pt_ranges[r], 1, Len(range_log[r]))
        /\ LastCall(r).kind = "returned" => LoggedRanges(r) = pt_ranges[r]

\* process_ticker has returned; the insert of its first range raised, and its
\* second range was fetched and imported.
C11_Witness ==
  /\ pt_calls[BatchRun] # <<>>
  /\ LastCall(BatchRun).kind = "returned"
  /\ Len(range_log[BatchRun]) = 2
  /\ range_log[BatchRun][1].insert = "raised"
  /\ range_log[BatchRun][2].added > 0

\* The tickers process_ticker was called for, in call order.
AttemptedTickers(r) == [i \in DOMAIN pt_calls[r] |-> pt_calls[r][i].ticker]

C13_DryRunNoWrite ==
  dry_run[BatchRun] =>
     /\ store = store0
     /\ pending[BatchRun] = {}
     /\ bi_pc[BatchRun] = "idle"
     /\ \A i \in DOMAIN range_log[BatchRun] : range_log[BatchRun][i].insert = "none"

\* A dry run is over and reported bars it would import for both tickers.
C13_Witness ==
  /\ dry_run[BatchRun]
  /\ run_pc[BatchRun] = "closed"
  /\ Len(pt_calls[BatchRun]) = 2
  /\ pt_calls[BatchRun][1].value > 0
  /\ pt_calls[BatchRun][2].value > 0

\* The provider had no data at some attempt of the fetch of this range.
NoDataAnswered(e) ==
  \E j \in DOMAIN e.events : e.events[j].ev = "ok" /\ e.events[j].rows = 0

RECURSIVE SumAdded(_)
SumAdded(log) == IF log = <<>> THEN 0 ELSE Head(log).added + SumAdded(Tail(log))

\* C18: when the provider answers an attempt with no data, that attempt is
\* the last event of the fetch call (no sleep and no further attempt) and the
\* call returns an empty frame; process_ticker then calls no insert for the
\* range and adds 0 for it (total_imported is the sum of what the other
\* ranges added), does not raise, and goes on: the handled ranges are the
\* first ranges of missing_ranges and, at the return, all of them.
C18_NoDataIsNotAnError ==
  \A r \in Runs :
     /\ total_imported[r] = SumAdded(range_log[r])
     /\ \A i \in DOMAIN range_log[r] :
          LET e == range_log[r][i]
          IN NoDataAnswered(e) =>
                /\ e.events[Len(e.events)].ev = "ok"
                /\ e.events[Len(e.events)].rows = 0
                /\ \A j \in 1..(Len(e.events) - 1) : e.events[j].ev # "ok"
                /\ e.fetch = "returned"
                /\ e.df = <<>>
                /\ e.insert = "none"
                /\ e.added = 0
                /\ LastCall(r).kind \in {"running", "returned"}
                /\ LoggedRanges(r) = SubSeq(pt_ranges[r], 1, Len(range_log[r]))
                /\ LastCall(r).kind = "returned" => LoggedRanges(r) = pt_ranges[r]

\* A real run: the provider had no data for the first range (answered at the
\* second attempt, after a failed one), and the second range was imported.
C18_Witness ==
  /\ ~dry_run[BatchRun]
  /\ pt_calls[BatchRun] # <<>>
  /\ LastCall(BatchRun).kind = "returned"
  /\ Len(range_log[BatchRun]) = 2
  /\ NoDataAnswered(range_log[BatchRun][1])
  /\ Len(range_log[BatchRun][1].events) = 3
  /\ range_log[BatchRun][2].added > 0
  /\ total_imported[BatchRun] = range_log[BatchRun][2].added

\* C23: the fetch calls process_ticker has completed are for the first
\* ranges of missing_ranges, one call per range, in list order and with the
\* range's bounds, and their starts ascend; a call in progress is for the
\* current range and the current ticker; when process_ticker has returned,
\* every range has been fetched; with no missing range it has returned 0
\* with no fetch.  A fetch call begins only where process_ticker awaits it,
\* and the step that returns 0 for an empty missing_ranges starts no fetch
\* and no insert and writes nothing.
C23_OneFetchPerRange ==
  /\ [](\A r \in Runs :
          /\ LoggedRanges(r) = SubSeq(pt_ranges[r], 1, Len(range_log[r]))
          /\ \A i \in DOMAIN range_log[r] :
                (i + 1) \in DOMAIN range_log[r] =>
                   range_log[r][i].range[1] < range_log[r][i + 1].range[1]
          /\ run_pc[r] \in {"fetch", "fetching"} => Len(range_log[r]) = rg_idx[r] - 1
          /\ run_pc[r] = "fetching" =>
                f_args[r] = [ticker |-> CurTicker(r),
                             start |-> CurRange(r)[1], end |-> CurRange(r)[2]]
          /\ run_pc[r] = "import" => Len(range_log[r]) = rg_idx[r]
          /\ (pt_calls[r] # <<>> /\ LastCall(r).kind = "returned") =>
                /\ LoggedRanges(r) = pt_ranges[r]
                /\ pt_ranges[r] = <<>> => LastCall(r).value = 0)
  /\ [][\A r \in Runs :
          /\ (f_pc[r] = "idle" /\ f_pc'[r] # "idle") =>
                run_pc[r] = "fetch" /\ run_pc'[r] = "fetching"
          /\ (Len(pt_calls'[r]) = Len(pt_calls[r]) + 1 /\ pt_ranges'[r] = <<>>) =>
                /\ store' = store /\ pending' = pending
                /\ f_pc' = f_pc /\ f_log' = f_log /\ bi_pc' = bi_pc /\ bi_log' = bi_log]_vars

\* The run is over: the first ticker had every day complete and returned 0
\* with no fetch, the second had two missing ranges and both were fetched.
C23_Witness ==
  /\ run_pc[BatchRun] = "closed"
  /\ store0 = FullStore
  /\ Len(pt_calls[BatchRun]) = 2
  /\ pt_calls[BatchRun][1] = CallEntry("X", "returned", 0)
  /\ pt_calls[BatchRun][2].kind = "returned"
  /\ Len(pt_ranges[BatchRun]) = 2
  /\ LoggedRanges(BatchRun) = pt_ranges[BatchRun]

\* The bars of the ticker on calendar day d the store held when the run began.
HeldBars(tk, d) == {x \in store0 : x.ticker = tk /\ DateOf(x.price_datetime) = d}
\* The range includes an instant of calendar day d.
Touches(rg, d) == rg[1] <= EndOfDay(d) /\ rg[2] >= StartOfDay(d)
\* The ranges process_ticker has passed to the fetcher in its current call.
RangesPassed(r) ==
  {range_log[r][i].range : i \in DOMAIN range_log[r]}
    \cup (IF run_pc[r] = "fetching" THEN {FetchedRange(r)} ELSE {})

\* C24: no range process_ticker passes to the fetcher includes an instant of
\* a calendar day of the window for which the store already held at least
\* MIN_RECORDS_PER_DAY bars of the ticker.
C24_CompleteDayNotRefetched ==
  \A r \in Runs :
     pt_calls[r] # <<>> =>
        \A rg \in RangesPassed(r) :
           \A d \in DateOf(pt_start[r])..DateOf(pt_end[r]) :
              Cardinality(HeldBars(LastCall(r).ticker, d)) >= MIN_RECORDS_PER_DAY
                 => ~Touches(rg, d)

\* C24 for the complete days whose first bar is at 09:00 Tokyo time or later.
C24_CompleteDayNotRefetchedTokyoHours ==
  \A r \in Runs :
     pt_calls[r] # <<>> =>
        \A rg \in RangesPassed(r) :
           \A d \in DateOf(pt_start[r])..DateOf(pt_end[r]) :
              (/\ Cardinality(HeldBars(LastCall(r).ticker, d)) >= MIN_RECORDS_PER_DAY
               /\ \A x \in HeldBars(LastCall(r).ticker, d) :
                     UtcDateOf(x.price_datetime) = d)
                 => ~Touches(rg, d)

\* Two ranges were fetched around a complete day of Tokyo hours.
C24_TokyoHoursReached ==
  /\ pt_calls[BatchRun] # <<>>
  /\ Len(range_log[BatchRun]) = 2
  /\ \E d \in DateOf(pt_start[BatchRun])..DateOf(pt_end[BatchRun]) :
        /\ Cardinality(HeldBars(LastCall(BatchRun).ticker, d)) >= MIN_RECORDS_PER_DAY
        /\ \A x \in HeldBars(LastCall(BatchRun).ticker, d) : UtcDateOf(x.price_datetime) = d

\* The session has no transaction, open or failed, and no uncommitted row.
SessionClean(r) == txn[r] = "none" /\ pending[r] = {}
\* The coverage query of the last process_ticker call raised and the loop is
\* at the next instrument.
AfterQueryRaised(r) ==
  run_pc[r] = "ticker" /\ pt_calls[r] # <<>> /\ LastCall(r).kind = "raised"
\* The insert of the last handled range raised and the loop is at the next
\* range or the next instrument.
AfterInsertRaised(r) ==
  /\ run_pc[r] \in {"ticker", "fetch"}
  /\ range_log[r] # <<>>
  /\ range_log[r][Len(range_log[r])].insert = "raised"

\* C25: when a coverage query or an insert has raised and the batch moves on
\* to the next range or instrument, the session has been rolled back: it
\* holds no failed and no open transaction.
C25_RolledBackAfterError ==
  \A r \in Runs :
     (AfterQueryRaised(r) \/ AfterInsertRaised(r)) => SessionClean(r)

\* C25 for the insert alone.
C25_RolledBackAfterInsertError ==
  \A r \in Runs : AfterInsertRaised(r) => SessionClean(r)

\* The committed rows of the ticker that were not stored when the run began.
RowsAdded(tk) == {x \in store \ store0 : x.ticker = tk}

\* C22: when a real run is over, the count each process_ticker call returned
\* is the number of rows of its ticker the run added to the store.
C22_CountIsRowsAdded ==
  (~dry_run[BatchRun] /\ run_pc[BatchRun] = "closed") =>
     \A i \in DOMAIN pt_calls[BatchRun] :
        pt_calls[BatchRun][i].kind = "returned" =>
           pt_calls[BatchRun][i].value = Cardinality(RowsAdded(pt_calls[BatchRun][i].ticker))

\* C22 for the first process_ticker call of the run, at its return, when
\* every value it fetched is one the store accepts.
C22_CountIsRowsAddedAccepted ==
  (/\ ~dry_run[BatchRun]
   /\ Len(pt_calls[BatchRun]) = 1
   /\ LastCall(BatchRun).kind = "returned"
   /\ ~RejectedFrameFetched(BatchRun)) =>
     LastCall(BatchRun).value = Cardinality(RowsAdded(LastCall(BatchRun).ticker))

\* ===================================================== claims: SpecFetch
\* The provider attempts among the events of a fetch call.
AttemptEvents(log) == {i \in DOMAIN log : log[i].ev # "sleep"}

\* The events of the fetch call of run r follow the retry discipline.
FetchOrderly(r) ==
  LET log == f_log[r]
      n == Len(log)
  IN /\ Cardinality(AttemptEvents(log)) <= max_retries
     /\ \A i \in 1..n :
          /\ log[i].ev # "sleep" =>
                log[i].attempt = Cardinality({j \in AttemptEvents(log) : j <= i})
          /\ log[i].ev = "sleep" =>
                /\ i > 1 /\ log[i - 1].ev = "fail"
                /\ log[i].secs = retry_delay
                /\ i = n => f_pc[r] = "attempt"
          /\ (log[i].ev = "fail" /\ i < n) => log[i + 1].ev = "sleep"
          /\ log[i].ev = "ok" =>
                i = n /\ f_pc[r] = "done" /\ f_result[r].kind = "returned"
     /\ f_pc[r] = "sleep" =>
          n >= 1 /\ log[n].ev = "fail" /\ Cardinality(AttemptEvents(log)) < max_retries
     /\ f_pc[r] = "done" =>
          /\ n >= 1
          /\ f_result[r].kind \in {"returned", "raised"}
          /\ f_result[r].kind = "returned" <=> log[n].ev = "ok"
          /\ f_result[r].kind = "raised" <=>
                (log[n].ev = "fail" /\ Cardinality(AttemptEvents(log)) = max_retries)

C15_Safety ==
  (max_retries >= 1 /\ f_pc[DrvRun] # "idle") => FetchOrderly(DrvRun)

\* C15: with max_retries >= 1 a fetch call makes at most max_retries provider
\* attempts, sleeps retry_delay exactly between a failed attempt and the
\* attempt after it and never after the last one, returns at its first
\* attempt that answers, raises exactly when all max_retries attempts have
\* failed, and every call comes to its end.
C15_BoundedRetry ==
  /\ []C15_Safety
  /\ (drv_pc = "waiting" /\ max_retries >= 1) ~> (drv_pc = "closed")

\* All attempts of a fetcher with two or more retries failed, with a sleep
\* between each two, and the call raised.
C15_Witness ==
  /\ drv_pc = "closed"
  /\ max_retries >= 2
  /\ f_result[DrvRun].kind = "raised"
  /\ Len(f_log[DrvRun]) = 2 * max_retries - 1

\* C26: a fetch call that has come to its end, with a frame or an error,
\* has made at least one provider attempt.
C26_ReturnsAfterAttempt ==
  f_pc[DrvRun] = "done" => AttemptEvents(f_log[DrvRun]) # {}

\* C26 for the fetchers built with max_retries of 1 or more.
C26_ReturnsAfterAttemptPositive ==
  (f_pc[DrvRun] = "done" /\ max_retries >= 1) => AttemptEvents(f_log[DrvRun]) # {}

\* ===================================================== claims: SpecStore
CallFinished == last_call.kind # "none"
\* The rows of the last call the column type rejects, and the others.
OffendingRows == {last_call.rows[i] : i \in {j \in DOMAIN last_call.rows : Rejected(last_call.rows[j])}}
ValidRows == {last_call.rows[i] : i \in {j \in DOMAIN last_call.rows : ~Rejected(last_call.rows[j])}}

\* C2: a call of bulk_insert that repeats the record list of the call before
\* it returns 0 and leaves the committed rows as the first call left them.
C2_Idempotent ==
  (CallFinished /\ last_call.repeat) =>
     /\ last_call.kind = "returned"
     /\ last_call.value = 0
     /\ last_call.after = last_call.before

\* C2 for the record lists the store accepts.
C2_IdempotentAccepted ==
  (CallFinished /\ last_call.repeat /\ OffendingRows = {}) =>
     /\ last_call.kind = "returned"
     /\ last_call.value = 0
     /\ last_call.after = last_call.before

\* C3: a bulk_insert that returns, returns the number of rows by which the
\* committed table grew during the call.
C3_ReturnsNewRowCount ==
  (CallFinished /\ last_call.kind = "returned") =>
     /\ last_call.value = Cardinality(last_call.after) - Cardinality(last_call.before)
     /\ last_call.value = Cardinality(last_call.after \ last_call.before)

\* C4: after a call whose list holds a rejected row and valid rows, once the
\* session is closed every valid row of the call is a committed row.
C4_SiblingsCommitted ==
  (drv_pc = "closed" /\ CallFinished /\ OffendingRows # {} /\ ValidRows # {}) =>
     \A v \in ValidRows : RowKey(v) \in Keys(store)

\* C5: a call whose set-based insert fails on an offending row still returns
\* to its caller (with the count of the rows it stored) and does not raise.
C5_NoBatchFailure ==
  (CallFinished /\ OffendingRows # {}) => last_call.kind = "returned"

\* C16: a call of bulk_insert with an empty list goes in one step to its
\* return of 0: no statement, commit or rollback is run in between, and the
\* committed rows, the rows written in the session's transaction and the
\* state of that transaction are what they were.
C16_EmptyIsNoOp ==
  [][(bi_pc[DrvRun] = "call" /\ bi_rows[DrvRun] = <<>>) =>
        /\ bi_pc'[DrvRun] = "done"
        /\ bi_result'[DrvRun] = [kind |-> "returned", value |-> 0]
        /\ store' = store
        /\ pending' = pending
        /\ txn' = txn]_vars

\* An empty call returned 0 in a session whose open transaction holds rows
\* written by an earlier call; they are still there.
C16_Witness ==
  /\ CallFinished
  /\ last_call.rows = <<>>
  /\ last_call.kind = "returned"
  /\ last_call.value = 0
  /\ pending[DrvRun] # {}
  /\ txn[DrvRun] = "active"

\* The per-row inserts among the store operations of a bulk_insert call.
RowOps(log) == {i \in DOMAIN log : log[i].op = "row"}

\* C21: in every bulk_insert call the per-row inserts come only after the
\* set-based insert has failed and session.rollback() has run, in that order;
\* a call whose set-based insert succeeds issues no per-row insert and no
\* rollback; the replay inserts the rows in list order, each one once, and
\* all of them before the call raises; and while the call lasts every row
\* whose replayed insert passed is still in the table as the session sees
\* it, whatever rows failed before or after it.
C21_ReplayOnlyAfterRollback ==
  \A r \in Runs :
     LET log == bi_log[r]
         rows == bi_rows[r]
     IN /\ RowOps(log) # {} =>
              /\ Len(log) >= 3
              /\ log[1].op = "bulk" /\ log[1].error # "none"
              /\ log[2].op = "rollback"
        /\ (log # <<>> /\ log[1].error = "none") =>
              \A i \in DOMAIN log : log[i].op \in {"bulk", "commit"}
        /\ \A i \in DOMAIN log :
              /\ log[i].op = "bulk" => i = 1
              /\ log[i].op = "rollback" => i = 2
              /\ log[i].op = "row" => i > 2 /\ log[i].idx = i - 2
        /\ Cardinality(RowOps(log)) <= Len(rows)
        /\ (bi_pc[r] = "done" /\ bi_result[r].kind = "raised") =>
              Cardinality(RowOps(log)) = Len(rows)
        /\ bi_pc[r] # "idle" =>
              \A i \in RowOps(log) :
                 log[i].error = "none" => RowKey(rows[log[i].idx]) \in Keys(Visible(r))

\* A call has raised after its replay: the first row passed, the second row
\* failed, and the first row is still written in the session's transaction.
C21_Witness ==
  /\ bi_pc[DrvRun] = "done"
  /\ bi_result[DrvRun].kind = "raised"
  /\ Len(bi_log[DrvRun]) = 4
  /\ bi_log[DrvRun][3].error = "none"
  /\ bi_log[DrvRun][4].error # "none"
  /\ RowKey(bi_rows[DrvRun][1]) \in Keys(pending[DrvRun])

\* ======================================================= claims: SpecGap
GapDone == gpc = "done"

\* The calendar days of the window and of one returned range.
WindowDays == DateOf(start_date)..DateOf(end_date)
RangeDays(rg) == DateOf(rg[1])..DateOf(rg[2])

\* The window days with no coverage row, or with a row below the threshold.
UncoveredDays ==
  {d \in WindowDays :
     \A i \in DOMAIN existing_ranges :
        DateOf(existing_ranges[i].min_dt) = d
          => existing_ranges[i].count < MIN_RECORDS_PER_DAY}

\* No row of the instrument lies inside the window.
NoCoverageInStore ==
  \A r \in store :
     ~(r.ticker = "X" /\ r.price_datetime >= start_date /\ r.price_datetime <= end_date)

\* C6: with a non-empty coverage list, the calendar days covered by the
\* returned ranges are exactly the window days without a coverage row or with
\* a bar count below the threshold (a count equal to the threshold is
\* complete), and no two returned ranges cover the same or adjacent days.
C6_MissingDaysExact ==
  (GapDone /\ existing_ranges # <<>>) =>
     /\ UNION {RangeDays(missing_ranges[i]) : i \in DOMAIN missing_ranges} = UncoveredDays
     /\ \A i, j \in DOMAIN missing_ranges :
          i # j => \A a \in RangeDays(missing_ranges[i]), b \in RangeDays(missing_ranges[j]) :
                     a # b /\ a # b + 1 /\ b # a + 1

\* The first bar of every covered day is at 09:00 Tokyo time or later: its
\* UTC date is its Tokyo date.
CoverageDatesAgree ==
  \A i \in DOMAIN existing_ranges :
     UtcDateOf(existing_ranges[i].min_dt) = DateOf(existing_ranges[i].min_dt)

\* C6 for the stores whose covered days begin at 09:00 Tokyo time or later.
C6_MissingDaysExactTokyoHours ==
  (GapDone /\ existing_ranges # <<>> /\ CoverageDatesAgree) =>
     /\ UNION {RangeDays(missing_ranges[i]) : i \in DOMAIN missing_ranges} = UncoveredDays
     /\ \A i, j \in DOMAIN missing_ranges :
          i # j => \A a \in RangeDays(missing_ranges[i]), b \in RangeDays(missing_ranges[j]) :
                     a # b /\ a # b + 1 /\ b # a + 1

\* A day at exactly the threshold is left out, a day one bar short is
\* returned, and two separate ranges come back.
C6_Witness ==
  /\ GapDone
  /\ Len(missing_ranges) = 2
  /\ \E i \in DOMAIN existing_ranges : existing_ranges[i].count = MIN_RECORDS_PER_DAY
  /\ \E i \in DOMAIN existing_ranges : existing_ranges[i].count = MIN_RECORDS_PER_DAY - 1

\* C7: for a non-empty window (start <= end) in which the store holds no row
\* of the instrument, the result is the one range (start, end).
C7_NoCoverageWholeWindow ==
  (GapDone /\ start_date <= end_date /\ NoCoverageInStore) =>
     missing_ranges = << <<start_date, end_date>> >>

\* The window starts inside a day, holds rows of another instrument only, and
\* comes back as it was given.
C7_Witness ==
  /\ GapDone
  /\ start_date < end_date
  /\ NoCoverageInStore
  /\ start_date # StartOfDay(DateOf(start_date))
  /\ \E r \in store : r.price_datetime >= start_date /\ r.price_datetime <= end_date
  /\ missing_ranges = << <<start_date, end_date>> >>

\* C8: when every calendar day from the date of start_date to the date of
\* end_date has a coverage row at or above the threshold, the result is empty.
C8_AllCompleteEmpty ==
  (GapDone /\ \A d \in WindowDays :
                 \E i \in DOMAIN existing_ranges :
                    /\ DateOf(existing_ranges[i].min_dt) = d
                    /\ existing_ranges[i].count >= MIN_RECORDS_PER_DAY)
     => missing_ranges = <<>>

\* C8 restricted to the windows that hold at least one calendar day and the
\* stores whose covered days begin at 09:00 Tokyo time or later.
C8_AllCompleteEmptyNonDegenerate ==
  (GapDone /\ WindowDays # {} /\ CoverageDatesAgree
     /\ \A d \in WindowDays :
           \E i \in DOMAIN existing_ranges :
              /\ DateOf(existing_ranges[i].min_dt) = d
              /\ existing_ranges[i].count >= MIN_RECORDS_PER_DAY)
     => missing_ranges = <<>>

\* C9: a window with start_date > end_date yields no missing range.
C9_DegenerateEmpty ==
  (GapDone /\ start_date > end_date) => missing_ranges = <<>>

\* C10: the returned ranges are strictly ascending by start, and each range
\* ends before the next one starts.
C10_SortedDisjoint ==
  GapDone =>
     \A i \in DOMAIN missing_ranges :
        (i + 1) \in DOMAIN missing_ranges =>
           /\ missing_ranges[i][1] < missing_ranges[i + 1][1]
           /\ missing_ranges[i][2] < missing_ranges[i + 1][1]

\* Two ranges are returned.
C10_Witness == GapDone /\ Len(missing_ranges) >= 2

\* The window starts at the first instant of a day and ends at the last
\* instant of a day.
DayAligned ==
  /\ start_date = StartOfDay(DateOf(start_date))
  /\ end_date = EndOfDay(DateOf(end_date))

\* C19: with an empty coverage list the result (the shortcut of lines
\* 219-220) is the result of the per-day walk and merge for the same window
\* with no complete day.
C19_ShortcutEqualsWalk ==
  (GapDone /\ existing_ranges = <<>>) =>
     missing_ranges = PerDayWalk(<<>>, start_date, end_date)

\* C19 for the windows made of whole days.
C19_ShortcutEqualsWalkAligned ==
  (GapDone /\ existing_ranges = <<>> /\ DayAligned /\ start_date <= end_date) =>
     missing_ranges = PerDayWalk(<<>>, start_date, end_date)

\* C20: every returned range lies inside the window.
C20_WithinWindow ==
  GapDone =>
     \A i \in DOMAIN missing_ranges :
        /\ start_date <= missing_ranges[i][1]
        /\ missing_ranges[i][2] <= end_date

\* C20 for the windows made of whole days.
C20_WithinWindowAligned ==
  (GapDone /\ DayAligned) =>
     \A i \in DOMAIN missing_ranges :
        /\ start_date <= missing_ranges[i][1]
        /\ missing_ranges[i][2] <= end_date

====
